---------------------------- MODULE Spec2Model ----------------------------
(***************************************************************************)
(* Model of geolite2.parser.Parser: the named-parser registry with its     *)
(* lazily filled reader cache (parse, _get_reader, _close_readers) and the *)
(* three update strategies (git, api, local) that all end in               *)
(* _replace_data_dir.                                                      *)
(*                                                                         *)
(* The file system is modelled at the granularity of the operations the    *)
(* code issues: an exists() test, the per-entry removals of shutil.rmtree, *)
(* the per-file copies of shutil.copytree and the single rename of         *)
(* Path.replace.  Every one of them may raise OSError.  The network and    *)
(* the git subprocesses succeed or fail nondeterministically.              *)
(*                                                                         *)
(* One Parser is used by one thread: parse and update do not overlap.  A   *)
(* database file is identified by the build it holds; a file that exists   *)
(* opens.  Parser.register is only called by the three module-level        *)
(* decorators.                                                             *)
(***************************************************************************)
EXTENDS Integers, FiniteSets, Sequences, TLC

\* Number of distinct database builds (file contents) that exist.
MaxVer == 2

Versions == 1..MaxVer

\* Parser._registry after the three module-level @Parser.register calls.
_registry == {"asn", "city", "country"}

\* A name no @Parser.register call has registered.
Unregistered == "isp"

Names == _registry \cup {Unregistered}

\* The "db_file" member of a registry entry.
db_file(name) ==
    CASE name = "asn" -> "GeoLite2-ASN.mmdb"
      [] name = "city" -> "GeoLite2-City.mmdb"
      [] name = "country" -> "GeoLite2-Country.mmdb"
      [] OTHER -> "KeyError"

Files == {db_file(n) : n \in _registry}

\* The ip argument of parse: one IPv4 and one IPv6 address.
Ips == {"1.2.3.4", "::1"}

\* self._data_path and its sibling self._data_path.with_suffix(".tmp").
DataPath == "data"
TmpPath == "data.tmp"

\* The path argument of update: None, the empty string, a path that does
\* not exist, an existing directory elsewhere, and the two paths the swap
\* itself works on.
LocalPaths == {"None", "", "missing", "src", DataPath, TmpPath}

Methods == {"git", "api", "local", "ftp"}

(***************************************************************************)
(* Directories.  A directory either does not exist or maps each file name  *)
(* to the build it holds (0: no such file).                                *)
(***************************************************************************)
NoDir == [exists |-> FALSE, files |-> [f \in Files |-> 0]]

MkDir(S, v) == [exists |-> TRUE, files |-> [f \in Files |-> IF f \in S THEN v ELSE 0]]

EmptyDir == MkDir({}, 0)

Present(d) == {f \in Files : d.files[f] # 0}

FileVer(d, f) == IF d.exists /\ f \in Files THEN d.files[f] ELSE 0

RemoveFile(d, f) == [d EXCEPT !.files[f] = 0]

PutFile(d, f, v) == [d EXCEPT !.files[f] = v]

\* What a directory an update is given may hold.
SourceDirs ==
    {EmptyDir} \cup {MkDir(S, v) : S \in {Files, {db_file("asn")}}, v \in Versions}

\* Every directory d' that removing entries of d can leave behind.
PartsOf(d) == {x \in {[d EXCEPT !.files = [f \in Files |-> IF f \in S THEN d.files[f] ELSE 0]] :
                         S \in SUBSET Present(d)} : d.exists} \cup {NoDir}

(***************************************************************************)
(* Readers.  A maxminddb.Reader is identified by the registry name it was  *)
(* opened for and the build of the file it maps; "old" records whether it  *)
(* was opened before the most recent call of update.                       *)
(***************************************************************************)
NoReader == [name |-> "", ver |-> 0, old |-> FALSE]

Reader(n, v) == [name |-> n, ver |-> v, old |-> FALSE]

\* reader.get(ip) on an open reader: the record of build v for ip.
Lookup(v, ip) == <<v, ip>>

NoAnswer == <<0, "">>

VARIABLES
    live,      \* the directory at self._data_path
    tmp,       \* the directory at self._data_path.with_suffix(".tmp")
    _readers,  \* self._readers: name -> Reader (NoReader: no entry)
    open,      \* the Reader objects that are open
    opens,     \* per name, the files opened since the last call of update
    parsed,    \* the registered names parsed since the last call of update
    pc,        \* where the running update call stands ("idle": none runs)
    upd,       \* the running or most recent update call
    last       \* the most recent parse call

vars == <<live, tmp, _readers, open, opens, parsed, pc, upd, last>>

\* Cap on the per-name count of opens kept in opens.
MaxOpens == 2

NoUpdate ==
    [method |-> "none", path |-> "None", src |-> "none", ext |-> NoDir,
     todo |-> {}, listing |-> NoDir, live0 |-> NoDir, tmp0 |-> NoDir,
     cand |-> NoDir, out |-> "none", at |-> "none", failed |-> "none",
     swap |-> FALSE, closed |-> FALSE]

NoParse ==
    [name |-> "", ip |-> "", out |-> "none", opened |-> FALSE, attempted |-> FALSE,
     handler |-> FALSE, ans |-> NoAnswer, reader |-> NoReader, first |-> FALSE,
     cacheSame |-> TRUE, dirSame |-> TRUE]

\* Parser.__init__: the data directory exists (mkdir, exist_ok) and holds
\* whatever an earlier run left there; so does the temp path.
Init ==
    /\ live \in {EmptyDir, MkDir(Files, 1)}
    /\ tmp \in {NoDir, MkDir({db_file("asn")}, 1)}
    /\ _readers = [n \in Names |-> NoReader]
    /\ open = {}
    /\ opens = [n \in Names |-> 0]
    /\ parsed = {}
    /\ pc = "idle"
    /\ upd = NoUpdate
    /\ last = NoParse

(***************************************************************************)
(* Lookup path.                                                            *)
(***************************************************************************)
\* Variant of the registry test that lets every name through.
registered_any(name) == TRUE

\* name in self._registry
registered(name) == name \in _registry

\* maxminddb.open_database(self._data_path / filename): the build of the
\* file opened, 0 when there is no such file (the call raises).
open_database(name) == FileVer(live, db_file(name))

\* Variant of _get_reader that opens the file on every call.
_get_reader_reopen(name) ==
    IF ~registered(name)
    THEN [out |-> "UnknownParserType", cache |-> _readers, open |-> open,
          reader |-> NoReader, opened |-> FALSE, attempted |-> FALSE]
    ELSE IF open_database(name) # 0
         THEN [out |-> "ok",
               cache |-> [_readers EXCEPT ![name] = Reader(name, open_database(name))],
               open |-> open \cup {Reader(name, open_database(name))},
               reader |-> Reader(name, open_database(name)),
               opened |-> TRUE, attempted |-> TRUE]
         ELSE [out |-> "FileNotFoundError", cache |-> _readers, open |-> open,
               reader |-> NoReader, opened |-> FALSE, attempted |-> TRUE]

\* Parser._get_reader: the outcome, the cache and the open readers after
\* the call, the reader returned, and whether a file was opened (or an
\* open was attempted).
_get_reader(name) ==
    IF ~registered(name)
    THEN [out |-> "UnknownParserType", cache |-> _readers, open |-> open,
          reader |-> NoReader, opened |-> FALSE, attempted |-> FALSE]
    ELSE IF _readers[name] = NoReader
         THEN IF open_database(name) # 0
              THEN [out |-> "ok",
                    cache |-> [_readers EXCEPT ![name] = Reader(name, open_database(name))],
                    open |-> open \cup {Reader(name, open_database(name))},
                    reader |-> Reader(name, open_database(name)),
                    opened |-> TRUE, attempted |-> TRUE]
              ELSE [out |-> "FileNotFoundError", cache |-> _readers, open |-> open,
                    reader |-> NoReader, opened |-> FALSE, attempted |-> TRUE]
         ELSE [out |-> "ok", cache |-> _readers, open |-> open,
               reader |-> _readers[name], opened |-> FALSE, attempted |-> FALSE]

\* self._registry[name]["handler"](reader, ip): reader.get(ip), which
\* raises ValueError on a closed reader; opn is the set of open readers.
handler(r, ip, opn) ==
    IF r \in opn THEN [out |-> "ok", ans |-> Lookup(r.ver, ip)]
    ELSE [out |-> "ValueError", ans |-> NoAnswer]

\* Parser.parse(ip, name)
parse(ip, name) ==
    /\ pc = "idle"
    /\ LET g == _get_reader(name)
           h == IF g.out = "ok" THEN handler(g.reader, ip, g.open)
                ELSE [out |-> g.out, ans |-> NoAnswer]
       IN /\ (g.opened => opens[name] < MaxOpens)
          /\ UNCHANGED <<live, tmp, pc, upd>>
          /\ _readers' = g.cache
          /\ open' = g.open
          /\ opens' = IF g.opened THEN [opens EXCEPT ![name] = @ + 1] ELSE opens
          /\ parsed' = parsed \cup ({name} \cap _registry)
          /\ last' = [name |-> name, ip |-> ip, out |-> h.out, opened |-> g.opened,
                      attempted |-> g.attempted, handler |-> (g.out = "ok"),
                      ans |-> h.ans, reader |-> g.reader,
                      first |-> (name \notin parsed),
                      cacheSame |-> (g.cache = _readers /\ g.open = open),
                      dirSame |-> (live' = live /\ tmp' = tmp)]


(***************************************************************************)
(* Update entry point.                                                     *)
(***************************************************************************)
\* Variant of _close_readers that empties the cache without closing.
_close_readers_clear_only ==
    [cache |-> [n \in Names |-> NoReader], open |-> open]

\* Variant of _close_readers that closes without emptying the cache.
_close_readers_close_only ==
    [cache |-> _readers, open |-> open \ {_readers[n] : n \in Names}]

\* Variant of _close_readers that does nothing.
_close_readers_skip ==
    [cache |-> _readers, open |-> open]

\* Parser._close_readers: every cached reader is closed, then the cache
\* is cleared.
_close_readers ==
    [cache |-> [n \in Names |-> NoReader],
     open |-> open \ {_readers[n] : n \in Names}]

\* A reader that exists when update is called was opened before it.
Aged(r) == IF r = NoReader THEN r ELSE [r EXCEPT !.old = TRUE]

\* `if not path`
path_given(path) == path \notin {"None", ""}

\* The directory a path names; ext is what the caller's own directory
\* ("src") or the strategy's tempfile.TemporaryDirectory ("scratch") holds.
DirAt(path, ext) ==
    CASE path = DataPath -> live
      [] path = TmpPath -> tmp
      [] path \in {"src", "scratch"} -> ext
      [] OTHER -> NoDir

\* Variant of the existence test that accepts every path.
source_exists_any(path, ext) == TRUE

\* source.exists() in _update_via_local
source_exists(path, ext) == DirAt(path, ext).exists

Begin(method, path, ext) ==
    [NoUpdate EXCEPT !.method = method, !.path = path, !.ext = ext,
                     !.live0 = live, !.tmp0 = tmp, !.out = "running",
                     !.closed = (\E n \in Names : _readers[n] # NoReader),
                     !.cand = IF method = "local" /\ path_given(path)
                              THEN DirAt(path, ext) ELSE NoDir]

Raise(u, exc, where) == [u EXCEPT !.out = exc, !.at = where]

\* Parser.update(method, path) up to the first step of the strategy it
\* dispatches to: _close_readers, then the checks that touch nothing
\* (`if not path`, source.exists(), shutil.which("git")).
update(method, path, ext, which) ==
    /\ pc = "idle"
    /\ _readers' = [n \in Names |-> Aged(_close_readers.cache[n])]
    /\ open' = {Aged(r) : r \in _close_readers.open}
    /\ opens' = [n \in Names |-> 0]
    /\ parsed' = {}
    /\ last' = NoParse
    /\ UNCHANGED <<live, tmp>>
    /\ \/ /\ method = "git"
          /\ which
          /\ pc' = "git_clone"
          /\ upd' = Begin(method, path, ext)
       \/ /\ method = "git"
          /\ ~which
          /\ pc' = "done"
          /\ upd' = [Raise(Begin(method, path, ext), "UpdateError", "which")
                       EXCEPT !.failed = "which"]
       \/ /\ method = "api"
          /\ pc' = "api_list"
          /\ upd' = Begin(method, path, ext)
       \/ /\ method = "local"
          /\ ~path_given(path)
          /\ pc' = "done"
          /\ upd' = Raise(Begin(method, path, ext), "UpdateError", "update")
       \/ /\ method = "local"
          /\ path_given(path)
          /\ ~source_exists(path, ext)
          /\ pc' = "done"
          /\ upd' = Raise(Begin(method, path, ext), "UpdateError", "local")
       \/ /\ method = "local"
          /\ path_given(path)
          /\ source_exists(path, ext)
          /\ pc' = "rm_tmp"
          /\ upd' = [Begin(method, path, ext) EXCEPT !.src = path, !.swap = TRUE]
       \/ /\ method \notin {"git", "api", "local"}
          /\ pc' = "done"
          /\ upd' = Raise(Begin(method, path, ext), "UpdateError", "update")

(***************************************************************************)
(* _replace_data_dir(source)                                               *)
(***************************************************************************)
\* The directory at the source path now.
SourceDir == DirAt(upd.src, upd.ext)

Stay == UNCHANGED <<_readers, open, opens, parsed, last>>

\* Variant of the stale temp removal that leaves the temp path as it is.
rmtree_tmp_skip ==
    /\ pc = "rm_tmp"
    /\ pc' = "copy"
    /\ UNCHANGED <<live, tmp, upd>>
    /\ Stay

\* `if tmp.exists(): shutil.rmtree(tmp)`: rmtree unlinks the entries one
\* by one and then removes the directory; any of these may raise.
rmtree_tmp ==
    /\ pc = "rm_tmp"
    /\ Stay
    /\ UNCHANGED live
    /\ \/ /\ ~tmp.exists
          /\ pc' = "copy"
          /\ UNCHANGED <<tmp, upd>>
       \/ /\ tmp.exists
          /\ \E f \in Present(tmp) :
                /\ tmp' = RemoveFile(tmp, f)
                /\ UNCHANGED <<pc, upd>>
       \/ /\ tmp.exists
          /\ Present(tmp) = {}
          /\ tmp' = NoDir
          /\ pc' = "copy"
          /\ UNCHANGED upd
       \/ /\ tmp.exists
          /\ pc' = "done"
          /\ upd' = Raise(upd, "OSError", "rm_tmp")
          /\ UNCHANGED tmp

\* shutil.copytree(source, tmp), first part: list the source and create
\* the destination, which must not exist.
copytree ==
    /\ pc = "copy"
    /\ Stay
    /\ UNCHANGED live
    /\ \/ /\ SourceDir.exists
          /\ ~tmp.exists
          /\ tmp' = EmptyDir
          /\ upd' = [upd EXCEPT !.todo = Present(SourceDir)]
          /\ pc' = IF Present(SourceDir) = {} THEN "rm_live" ELSE "copy_files"
       \/ /\ pc' = "done"
          /\ upd' = Raise(upd, "OSError", "copy")
          /\ UNCHANGED tmp

\* shutil.copytree(source, tmp), second part: the files are copied one by
\* one; a copy may raise, and the destination keeps what was copied.
copy_file ==
    /\ pc = "copy_files"
    /\ Stay
    /\ UNCHANGED live
    /\ \/ \E f \in upd.todo :
            /\ FileVer(SourceDir, f) # 0
            /\ tmp' = PutFile(tmp, f, FileVer(SourceDir, f))
            /\ upd' = [upd EXCEPT !.todo = @ \ {f}]
            /\ pc' = IF upd.todo = {f} THEN "rm_live" ELSE "copy_files"
       \/ /\ pc' = "done"
          /\ upd' = Raise(upd, "OSError", "copy_files")
          /\ UNCHANGED tmp

\* `if self._data_path.exists(): shutil.rmtree(self._data_path)`
rmtree_live ==
    /\ pc = "rm_live"
    /\ Stay
    /\ UNCHANGED tmp
    /\ \/ /\ ~live.exists
          /\ pc' = "rename"
          /\ UNCHANGED <<live, upd>>
       \/ /\ live.exists
          /\ \E f \in Present(live) :
                /\ live' = RemoveFile(live, f)
                /\ UNCHANGED <<pc, upd>>
       \/ /\ live.exists
          /\ Present(live) = {}
          /\ live' = NoDir
          /\ pc' = "rename"
          /\ UNCHANGED upd
       \/ /\ live.exists
          /\ pc' = "done"
          /\ upd' = Raise(upd, "OSError", "rm_live")
          /\ UNCHANGED live

\* tmp.replace(self._data_path): one rename, which fails on a target
\* directory that is not empty; then update returns.
rename ==
    /\ pc = "rename"
    /\ Stay
    /\ pc' = "done"
    /\ \/ /\ tmp.exists
          /\ Present(live) = {}
          /\ live' = tmp
          /\ tmp' = NoDir
          /\ upd' = [upd EXCEPT !.out = "ok"]
       \/ /\ upd' = Raise(upd, "OSError", "rename")
          /\ UNCHANGED <<live, tmp>>

(***************************************************************************)
(* _update_via_git                                                         *)
(***************************************************************************)
\* What the data subdirectory of a clone may be: a source directory, or
\* missing from the checkout.
CloneDirs == SourceDirs \cup {NoDir}

\* Variant of the clone step that runs git without check=True.
git_clone_unchecked ==
    /\ pc = "git_clone"
    /\ Stay
    /\ UNCHANGED <<live, tmp>>
    /\ pc' = "git_sparse"
    /\ \/ UNCHANGED upd
       \/ upd' = [upd EXCEPT !.failed = "clone"]

\* subprocess.run(["git", "clone", ...], check=True): a non-zero exit
\* raises CalledProcessError, re-raised as UpdateError.
git_clone ==
    /\ pc = "git_clone"
    /\ Stay
    /\ UNCHANGED <<live, tmp>>
    /\ \/ /\ pc' = "git_sparse"
          /\ UNCHANGED upd
       \/ /\ pc' = "done"
          /\ upd' = [Raise(upd, "UpdateError", "git_clone") EXCEPT !.failed = "clone"]

\* subprocess.run(["git", "sparse-checkout", ...], check=True), then
\* src = tmp / "geolite2" / "data" is handed to _replace_data_dir.
git_sparse_checkout ==
    /\ pc = "git_sparse"
    /\ Stay
    /\ UNCHANGED <<live, tmp>>
    /\ \/ \E d \in CloneDirs :
            /\ pc' = "rm_tmp"
            /\ upd' = [upd EXCEPT !.ext = d, !.src = "scratch", !.cand = d,
                                  !.swap = TRUE]
       \/ /\ pc' = "done"
          /\ upd' = [Raise(upd, "UpdateError", "git_sparse") EXCEPT !.failed = "sparse"]

(***************************************************************************)
(* _update_via_api                                                         *)
(***************************************************************************)
\* An entry of the listing whose "type" is not "file".
SubDir == "dir"

\* After an item of the listing is done with: the next item, or the swap
\* once the loop has run out.
AfterItem(u, item) ==
    IF u.todo = {item}
    THEN [u EXCEPT !.todo = {}, !.src = "scratch", !.cand = u.ext, !.swap = TRUE]
    ELSE [u EXCEPT !.todo = @ \ {item}]

\* urlopen(GITHUB_API_BASE) and json.loads: the listing, or the request
\* raises.  The scratch directory starts empty.
api_list ==
    /\ pc = "api_list"
    /\ Stay
    /\ UNCHANGED <<live, tmp>>
    /\ \/ \E d \in SourceDirs, sub \in SUBSET {SubDir} :
            /\ Present(d) \cup sub # {}
            /\ pc' = "api_dl"
            /\ upd' = [upd EXCEPT !.listing = d, !.ext = EmptyDir,
                                  !.todo = Present(d) \cup sub]
       \/ /\ pc' = "rm_tmp"
          /\ upd' = [upd EXCEPT !.listing = EmptyDir, !.ext = EmptyDir,
                                !.src = "scratch", !.cand = EmptyDir, !.swap = TRUE]
       \/ /\ pc' = "done"
          /\ upd' = [Raise(upd, "URLError", "api_list") EXCEPT !.failed = "list"]

\* Variant of the download loop that carries on after a failed download.
api_download_swallow ==
    /\ pc = "api_dl"
    /\ Stay
    /\ UNCHANGED <<live, tmp>>
    /\ \E item \in upd.todo :
          /\ pc' = IF upd.todo = {item} THEN "rm_tmp" ELSE "api_dl"
          /\ \/ /\ item = SubDir
                /\ upd' = AfterItem(upd, item)
             \/ /\ item # SubDir
                /\ upd' = AfterItem([upd EXCEPT !.ext = PutFile(@, item, upd.listing.files[item])],
                                    item)
             \/ /\ item # SubDir
                /\ upd' = AfterItem([upd EXCEPT !.failed = "download"], item)

\* One turn of `for item in files`: an item that is no file is skipped; a
\* file is downloaded into the scratch directory, or the request raises.
\* When the loop is over, the scratch directory goes to _replace_data_dir.
api_download ==
    /\ pc = "api_dl"
    /\ Stay
    /\ UNCHANGED <<live, tmp>>
    /\ \E item \in upd.todo :
          \/ /\ item = SubDir
             /\ pc' = IF upd.todo = {item} THEN "rm_tmp" ELSE "api_dl"
             /\ upd' = AfterItem(upd, item)
          \/ /\ item # SubDir
             /\ pc' = IF upd.todo = {item} THEN "rm_tmp" ELSE "api_dl"
             /\ upd' = AfterItem([upd EXCEPT !.ext = PutFile(@, item, upd.listing.files[item])],
                                 item)
          \/ /\ item # SubDir
             /\ pc' = "done"
             /\ upd' = [Raise(upd, "URLError", "api_dl") EXCEPT !.failed = "download"]

\* update returns to its caller, or raises: the caller sees the outcome.
\* Of the finished call only the outcome, and whether it found readers in
\* the cache, is kept.
return ==
    /\ pc = "done"
    /\ pc' = "idle"
    /\ upd' = [NoUpdate EXCEPT !.out = IF upd.out = "ok" THEN "ok" ELSE "raised",
                               !.closed = upd.closed]
    /\ UNCHANGED <<live, tmp>>
    /\ Stay

Next ==
    \/ \E ip \in Ips, name \in Names : parse(ip, name)
    \/ \E path \in LocalPaths, ext \in SourceDirs :
          /\ (path # "src" => ext = EmptyDir)
          /\ update("local", path, ext, TRUE)
    \/ \E method \in Methods \ {"local"}, which \in BOOLEAN :
          /\ (method # "git" => which)
          /\ update(method, "None", NoDir, which)
    \/ git_clone
    \/ git_sparse_checkout
    \/ api_list
    \/ api_download
    \/ rmtree_tmp
    \/ copytree
    \/ copy_file
    \/ rmtree_live
    \/ rename
    \/ return

Spec == Init /\ [][Next]_vars

(***************************************************************************)
(* Properties.                                                             *)
(***************************************************************************)
ReplacePcs == {"rm_tmp", "copy", "copy_files", "rm_live", "rename"}

CacheEmpty == \A n \in Names : _readers[n] = NoReader

\* The build of the file a registered name is backed by in the live
\* directory (0: no such file).
LiveVer(name) == FileVer(live, db_file(name))

\* C1: from the moment _replace_data_dir starts until update returns,
\* also when a step of it raises, the live data directory exists and holds
\* the complete previous contents or the complete new contents.
C1_ReplaceAtomic ==
    upd.swap => live.exists /\ (live = upd.live0 \/ live = upd.cand)

\* C2: while an update call runs, whatever its method, the cache is empty
\* and no reader is open: every reader cached when update was called has
\* been closed and removed before any step on the temp path or the live
\* data directory.
C2_ReadersClosedBeforeSwap ==
    pc # "idle" => CacheEmpty /\ open = {}

\* C2 witness: _replace_data_dir starts in a call of update that found
\* readers in the cache.
C2_Witness ==
    pc = "rm_tmp" /\ upd.closed /\ upd.live0.exists /\ Present(upd.live0) # {}

\* C3: with the api strategy the swap starts only when every listed file
\* is in the scratch directory; while the listing and the downloads run,
\* and when one of them has failed (the error reaches the caller), the
\* live data directory and the temp path are as they were at the call; the
\* live directory only ever holds what is left of its old contents or the
\* complete listing.
C3_ApiSwapOnlyAfterFullDownload ==
    upd.method = "api" =>
        /\ pc \in {"api_list", "api_dl"} =>
              ~upd.swap /\ live = upd.live0 /\ tmp = upd.tmp0
        /\ upd.failed \in {"list", "download"} =>
              /\ pc = "done"
              /\ upd.out = "URLError"
              /\ ~upd.swap
              /\ live = upd.live0
              /\ tmp = upd.tmp0
        /\ upd.swap => upd.cand = upd.listing
        /\ live \notin PartsOf(upd.live0) => live = upd.listing

\* C3 witness: a download fails after another file of the listing has
\* been downloaded.
C3_Witness ==
    /\ upd.method = "api"
    /\ pc = "done"
    /\ upd.failed = "download"
    /\ Present(upd.ext) # {}
    /\ Present(upd.live0) # {}
    /\ upd.tmp0.exists

\* C4: parse with an unregistered name raises UnknownParserType, opens no
\* file (and attempts no open), calls no handler and leaves the cache and
\* the open readers as they were.
C4_UnknownNameFails ==
    (last.out # "none" /\ last.name \notin _registry) =>
        /\ last.out = "UnknownParserType"
        /\ ~last.attempted
        /\ ~last.opened
        /\ ~last.handler
        /\ last.cacheSame

\* C4 witness: an unregistered name is parsed after a successful update
\* and a lookup, with a reader in the cache.
C4_Witness ==
    /\ last.name = Unregistered
    /\ last.out = "UnknownParserType"
    /\ upd.out = "ok"
    /\ ~CacheEmpty

\* C5: when update('local', source) has succeeded the live data directory
\* is exactly the source directory as it was at the call and the temp path
\* is gone; the copy starts with no temp directory, and the temp directory
\* never holds a file that is not the source's.
C5_LocalUpdateExact ==
    upd.method = "local" =>
        /\ (pc = "done" /\ upd.out = "ok") => live = upd.cand /\ ~tmp.exists
        /\ pc = "copy" => ~tmp.exists
        /\ pc \in {"copy_files", "rm_live", "rename"} =>
              \A f \in Files : tmp.files[f] \in {0, upd.cand.files[f]}

\* C5 witness: a successful local update from a source with one file,
\* where a stale temp directory held another build of that file and the
\* live directory held files the source lacks.
C5_Witness ==
    /\ upd.method = "local"
    /\ pc = "done"
    /\ upd.out = "ok"
    /\ Cardinality(Present(upd.cand)) = 1
    /\ \E f \in Files : upd.tmp0.files[f] \notin {0, upd.cand.files[f]}
    /\ \E f \in Files : upd.live0.files[f] # 0 /\ upd.cand.files[f] = 0

C7_OpenOnlyOnFirstParse ==
    /\ \A n \in Names : opens[n] <= 1
    /\ (last.out # "none" /\ last.name \in _registry) =>
          /\ ~last.first =>
                /\ last.out = "ok"
                /\ ~last.attempted
                /\ last.cacheSame
          /\ last.out = "ok" => last.dirSame

\* C7 amended: between two update calls the file of a name is opened at
\* most once, and only on the first parse of the name; a later parse of a
\* name whose file was opened reuses the cached reader without going to
\* the file system; a later parse of a name whose open failed finds no
\* cached reader, attempts the open again and raises; no parse changes the
\* data directory or the temp path.
C7_AtMostOneOpenPerName ==
    /\ \A n \in Names : opens[n] <= 1
    /\ (last.out # "none" /\ last.name \in _registry) =>
          /\ last.opened => last.first
          /\ (~last.first /\ opens[last.name] = 1) =>
                /\ last.out = "ok"
                /\ ~last.attempted
                /\ last.cacheSame
          /\ (~last.first /\ opens[last.name] = 0) =>
                /\ last.out = "FileNotFoundError"
                /\ last.attempted
                /\ ~last.opened
                /\ last.cacheSame
          /\ last.dirSame

\* C7 witness: a second parse of a name answers from the cached reader.
C7_Witness ==
    /\ last.out = "ok"
    /\ ~last.first
    /\ ~last.attempted
    /\ opens[last.name] = 1
    /\ _readers[last.name] \in open

\* The update call's precondition failed: an unknown method, or 'local'
\* with no path, an empty path or a path that did not exist at the call.
PreconditionFailed ==
    \/ upd.method \notin {"none", "git", "api", "local"}
    \/ /\ upd.method = "local"
       /\ \/ upd.path \in {"None", ""}
          \/ ~upd.cand.exists

\* C8: an update call whose precondition fails raises UpdateError without
\* starting the swap, and the live data directory and the temp path are
\* as they were at the call.
C8_PreconditionFailure ==
    PreconditionFailed =>
        /\ pc = "done"
        /\ upd.out = "UpdateError"
        /\ ~upd.swap
        /\ live = upd.live0
        /\ tmp = upd.tmp0

\* C8 witness: update('local', path) with a path that does not exist has
\* raised, with files in the live directory and a stale temp directory.
C8_Witness ==
    /\ pc = "done"
    /\ upd.method = "local"
    /\ upd.path = "missing"
    /\ upd.out = "UpdateError"
    /\ Present(live) # {}
    /\ tmp.exists

\* C9: with the git strategy, when git is not available or the clone or
\* the sparse-checkout exits non-zero, update raises UpdateError, the swap
\* is never started and the live data directory and the temp path are as
\* they were at the call; nothing touches them while the git commands run.
C9_GitFailure ==
    /\ upd.failed \in {"which", "clone", "sparse"} =>
          /\ pc = "done"
          /\ upd.out = "UpdateError"
          /\ ~upd.swap
          /\ live = upd.live0
          /\ tmp = upd.tmp0
    /\ (upd.method = "git" /\ pc \in {"git_clone", "git_sparse"}) =>
          ~upd.swap /\ live = upd.live0 /\ tmp = upd.tmp0

\* C9 witness: the sparse-checkout has failed after a clone that worked.
C9_Witness ==
    /\ pc = "done"
    /\ upd.method = "git"
    /\ upd.failed = "sparse"
    /\ upd.out = "UpdateError"
    /\ Present(live) # {}

\* C10: every reader in the cache is open and is the reader of the
\* registered name it is keyed by; no handler is ever called with a closed
\* reader; when an update call ends, failed or not, the cache is empty,
\* and the first parse of a name after a failed update goes to the file.
C10_CachedReadersOpen ==
    /\ \A n \in Names :
          _readers[n] # NoReader =>
             n \in _registry /\ _readers[n].name = n /\ _readers[n] \in open
    /\ last.out # "ValueError"
    /\ pc = "done" => CacheEmpty
    /\ (upd.out = "raised" /\ last.name \in _registry /\ last.first) => last.attempted

\* C10 witness: after an update that closed readers and then failed, the
\* first parse of a name reopens the file and answers.
C10_Witness ==
    /\ upd.out = "raised"
    /\ upd.closed
    /\ last.first
    /\ last.opened
    /\ last.out = "ok"

=============================================================================
